---- MODULE Spec2Model ----
(***************************************************************************)
(* A model of locust/main.py: the launcher of the locust load-testing      *)
(* harness.  main() is a sequential program; pc holds the line of main.py  *)
(* the interpreter is about to execute ("L256" is line 256).  The called   *)
(* functions find_locustfile and load_locustfile are stepped through       *)
(* statement by statement; is_locust is a pure operator.                   *)
(*                                                                         *)
(* Directories are the ancestors of the current directory, named by their  *)
(* depth below the filesystem root (0 is the root itself), plus one        *)
(* directory off that chain (SitePackages).                                *)
(***************************************************************************)
EXTENDS Integers, Sequences, FiniteSets, TLC

\* Deepest current directory considered (levels below the root).
MaxDepth == 2
\* Longest module search list (sys.path) considered before a load.
MaxPathLen == 3

\* Python's None.  Optional integers are kept as Some(i) so that they can be
\* compared with None.
None == <<>>
Some(v) == <<v>>

---------------------------------------------------------------------------
(* Paths and the filesystem                                                *)

Depths == 0..MaxDepth

\* Directories as sys.path holds them: the directory at depth d of the chain,
\* and one directory that is not on the chain.
ChainDir(d) == [depth |-> d]
SitePackages == [lib |-> "site-packages"]
Dirs == {ChainDir(d) : d \in Depths} \cup {SitePackages}

\* A file name: its stem and its extension ("" or ".py").
PyExt == ".py"
BareName == [stem |-> "locust", ext |-> ""]
PyName == [stem |-> "locust", ext |-> PyExt]
BaseNames == {BareName, PyName}

\* str.endswith('.py')
EndsWithPy(name) == name.ext = PyExt

\* name + '.py' (only ever applied to a name that does not end with .py)
AddPy(name) == [stem |-> name.stem, ext |-> PyExt]

\* What a directory entry is on disk.
Kinds == {"absent", "file", "dir", "pkg"}
KindsOf(name) == IF EndsWithPy(name) THEN {"absent", "file"} ELSE Kinds

\* A relative path is a sequence of "." and ".." components followed by a
\* file name: [dir |-> <<"..", ".">>, base |-> n] is "../././n".
DirPrefixes == {<<>>, <<".">>, <<"..">>}
Locators == [dir : DirPrefixes, base : BaseNames]

\* The default of -f/--locustfile.
DefaultLocator == [dir |-> <<>>, base |-> BareName]

\* os.path.dirname(names[0]) is non-empty
HasDirname(loc) == Len(loc.dir) > 0

\* The depth of the directory a sequence of "." / ".." components leads to
\* from depth d: os.path.abspath normalises lexically, and ".." at the root
\* stays at the root.
RECURSIVE Walk(_, _)
Walk(d, comps) ==
    IF comps = <<>> THEN d
    ELSE Walk(IF Head(comps) = ".." THEN (IF d > 0 THEN d - 1 ELSE 0) ELSE d,
              Tail(comps))

VARIABLES
    argv,           \* the command line: [opts, args]
    fs,             \* fs[d][name]: the kind of entry `name` in the directory at depth d
    cwd,            \* depth of the current directory
    source,         \* what executing the scenario file does: [raises, vars]
    sys_path,       \* sys.path, a list of directories
    pc,             \* the line main() is at, or "exit"
    options,        \* parse_options(): the option values
    arguments,      \* parse_options(): the positional arguments
    names,          \* find_locustfile: names
    path,           \* find_locustfile: path (components, '.' first)
    name_i,         \* find_locustfile: position of the for loop in names
    tested,         \* depths of the directories the search of lines 181-187 has tested
    locustfile,     \* main: locustfile (None or an absolute path)
    directory,      \* load_locustfile: directory
    added_to_path,  \* load_locustfile: added_to_path
    index,          \* load_locustfile: index
    path_at_call,   \* sys.path as it was when load_locustfile was entered
    imported,       \* load_locustfile: vars(imported), None before the import
    locusts,        \* the scenario catalog
    locust_class,   \* main: locust_class
    events,         \* runner constructions, task spawns and hatch triggers, in order
    output,         \* what was printed, in order
    exit_code,      \* None while running, Some(status) once exited
    uncaught        \* the exception that left main(), or None

envVars == <<argv, fs, cwd, source>>
findVars == <<names, path, name_i, tested>>
loadVars == <<directory, added_to_path, index, path_at_call, imported>>
runVars == <<locust_class, events, output, exit_code, uncaught>>
vars == <<argv, fs, cwd, source, sys_path, pc, options, arguments, names, path,
          name_i, tested, locustfile, directory, added_to_path, index, path_at_call,
          imported, locusts, locust_class, events, output, exit_code, uncaught>>

\* os.path.abspath(p): the directory depth a relative directory path denotes.
AbsDepth(comps) == Walk(cwd, comps)

\* The loop test true at the root too.
HasTailAlways(comps) == TRUE

\* os.path.split(os.path.abspath(path))[1]: the last component is empty
\* exactly at the root.
HasTail(comps) == AbsDepth(comps) > 0

\* The entry that os.path.join(dirpath, name) denotes.
EntryKind(comps, name) == fs[AbsDepth(comps)][name]

\* os.path.exists(joined)
Exists(comps, name) == EntryKind(comps, name) # "absent"

\* _is_package(joined): a directory holding __init__.py
IsPackage(comps, name) ==
    /\ EntryKind(comps, name) \in {"dir", "pkg"}
    /\ EntryKind(comps, name) = "pkg"

\* os.path.abspath(joined)
AbsPath(comps, name) == [depth |-> AbsDepth(comps), base |-> name]

\* if os.path.exists(joined): if name.endswith('.py') or _is_package(joined)
Acceptable(comps, name) ==
    /\ Exists(comps, name)
    /\ EndsWithPy(name) \/ IsPackage(comps, name)

---------------------------------------------------------------------------
(* parse_options: the option values optparse produces                      *)

\* The defaults of lines 39-99 and 21-22: every flag False, locustfile 'locust'.
DefaultOptions ==
    [show_version |-> FALSE, list_commands |-> FALSE, shortlist |-> FALSE,
     print_stats |-> FALSE, no_web |-> FALSE, master |-> FALSE, slave |-> FALSE,
     locustfile |-> DefaultLocator]

OptionSpace ==
    [show_version : BOOLEAN, list_commands : BOOLEAN, shortlist : BOOLEAN,
     print_stats : BOOLEAN, no_web : BOOLEAN, master : BOOLEAN, slave : BOOLEAN,
     locustfile : Locators]

---------------------------------------------------------------------------
(* find_locustfile, lines 159-188                                          *)

\* The .py version tried before the bare name.
NamesOfSuffixedFirst(loc) ==
    IF EndsWithPy(loc.base) THEN <<loc.base>> ELSE <<AddPy(loc.base), loc.base>>

\* Lines 164-167: names = [locustfile], plus the .py version if necessary.
NamesOf(loc) ==
    IF EndsWithPy(loc.base) THEN <<loc.base>> ELSE <<loc.base, AddPy(loc.base)>>

\* Line 256 calls find_locustfile; lines 164-169 and 178: build names and
\* choose between the explicit path and the search from the cwd.
FindStart ==
    /\ pc = "L256"
    /\ names' = NamesOf(options.locustfile)
    /\ name_i' = 1
    /\ tested' = {}
    /\ IF HasDirname(options.locustfile)
       THEN /\ pc' = "L171"
            /\ path' = path
       ELSE /\ pc' = "L181"
            /\ path' = <<".">>
    /\ UNCHANGED <<envVars, sys_path, options, arguments, locustfile, loadVars,
                   locusts, runVars>>

\* Lines 171-175, one iteration of the for loop: os.path.expanduser leaves a
\* path without '~' as it is.
FindExplicitTest ==
    /\ pc = "L171"
    /\ name_i <= Len(names)
    /\ IF Acceptable(options.locustfile.dir, names[name_i])
       THEN /\ locustfile' = AbsPath(options.locustfile.dir, names[name_i])
            /\ pc' = "L257"
            /\ name_i' = name_i
       ELSE /\ name_i' = name_i + 1
            /\ UNCHANGED <<locustfile, pc>>
    /\ UNCHANGED <<envVars, sys_path, options, arguments, names, path, tested,
                   loadVars, locusts, runVars>>

\* Line 171 with names exhausted, then line 188: implicit return None.
FindExplicitNone ==
    /\ pc = "L171"
    /\ name_i > Len(names)
    /\ locustfile' = None
    /\ pc' = "L257"
    /\ UNCHANGED <<envVars, sys_path, options, arguments, findVars, loadVars,
                   locusts, runVars>>

\* Line 181: while os.path.split(os.path.abspath(path))[1]; when the test
\* fails, line 188: implicit return None.
FindWhile ==
    /\ pc = "L181"
    /\ IF HasTail(path)
       THEN /\ pc' = "L182"
            /\ name_i' = 1
            /\ UNCHANGED locustfile
       ELSE /\ pc' = "L257"
            /\ locustfile' = None
            /\ UNCHANGED name_i
    /\ UNCHANGED <<envVars, sys_path, options, arguments, names, path, tested,
                   loadVars, locusts, runVars>>

\* Lines 182-186, one iteration of the for loop.
FindTest ==
    /\ pc = "L182"
    /\ name_i <= Len(names)
    /\ tested' = tested \cup {AbsDepth(path)}
    /\ IF Acceptable(path, names[name_i])
       THEN /\ locustfile' = AbsPath(path, names[name_i])
            /\ pc' = "L257"
            /\ name_i' = name_i
       ELSE /\ name_i' = name_i + 1
            /\ UNCHANGED <<locustfile, pc>>
    /\ UNCHANGED <<envVars, sys_path, options, arguments, names, path, loadVars,
                   locusts, runVars>>

\* The path left as it is: the search never leaves the cwd.
AscendNowhere(comps) == comps

\* path = os.path.join('..', path)
Ascend(comps) == <<"..">> \o comps

\* Line 187, reached when the for loop has run through names.
FindAscend ==
    /\ pc = "L182"
    /\ name_i > Len(names)
    /\ path' = Ascend(path)
    /\ pc' = "L181"
    /\ UNCHANGED <<envVars, sys_path, options, arguments, names, name_i, tested,
                   locustfile, loadVars, locusts, runVars>>

FindStep ==
    \/ FindStart
    \/ FindExplicitTest
    \/ FindExplicitNone
    \/ FindWhile
    \/ FindTest
    \/ FindAscend

---------------------------------------------------------------------------
(* is_locust, lines 191-201                                                *)

\* Declared names are kept as their characters, so that startswith is computed.
Foo == <<"F", "o", "o">>
UBar == <<"_", "B", "a", "r">>
Base == <<"B", "a", "s", "e">>
Nope == <<"N", "o", "p", "e">>
DeclNames == {Foo, UBar, Base}

\* Values a module can bind: the harness's base class Locust (imported from
\* core at line 3), a user subclass of it, a class that does not descend from
\* it, and the function hatch (not a class).
Classes == {"Locust", "MyLocust", "Plain"}
Values == Classes \cup {"hatch"}
ParentOf(c) == IF c = "MyLocust" THEN "Locust" ELSE "object"

\* Line 13: _internals = []
Internals == {}

\* inspect.isclass(item)
IsClass(item) == item \in Classes

\* issubclass(item, Locust): a class is a subclass of itself.
RECURSIVE IsSubclass(_, _)
IsSubclass(c, b) ==
    \/ c = b
    \/ c # "object" /\ IsSubclass(ParentOf(c), b)

\* name.startswith('_')
StartsWithUnderscore(name) == Len(name) >= 1 /\ name[1] = "_"

\* The test of the leading underscore left out.
IsLocustPrivateToo(name, item) ==
    /\ IsClass(item)
    /\ IsSubclass(item, "Locust")
    /\ item \notin Internals

\* Lines 196-201.
IsLocust(name, item) ==
    /\ IsClass(item)
    /\ IsSubclass(item, "Locust")
    /\ item \notin Internals
    /\ ~StartsWithUnderscore(name)

\* Line 241: dict(filter(is_locust, vars(imported).items()))
Catalog(decls) ==
    [n \in {m \in DOMAIN decls : IsLocust(m, decls[m])} |-> decls[n]]

\* Every mapping of some of the declared names to values.
AllDecls == UNION {[D -> Values] : D \in SUBSET DeclNames}

---------------------------------------------------------------------------
(* load_locustfile, lines 204-242                                          *)

\* Python list operations, with Python's 0-based positions.
ListInsert(s, i, x) ==
    LET k == IF i > Len(s) THEN Len(s) ELSE i
    IN  SubSeq(s, 1, k) \o <<x>> \o SubSeq(s, k + 1, Len(s))

ListDel(s, i) == SubSeq(s, 1, i) \o SubSeq(s, i + 2, Len(s))

ListIndex(s, x) ==
    CHOOSE i \in 0..(Len(s) - 1) :
        /\ s[i + 1] = x
        /\ \A j \in 0..(i - 1) : s[j + 1] # x

Contains(s, x) == \E i \in 1..Len(s) : s[i] = x

\* Line 213: directory, locustfile = os.path.split(path)
DirOf(p) == ChainDir(p.depth)

\* Lines 213-216.  path_at_call records sys.path on entry.
LoadSplit ==
    /\ pc = "L213"
    /\ directory' = DirOf(locustfile)
    /\ added_to_path' = FALSE
    /\ index' = None
    /\ path_at_call' = Some(sys_path)
    /\ pc' = "L217"
    /\ UNCHANGED <<envVars, sys_path, options, arguments, findVars, locustfile,
                   imported, locusts, runVars>>

\* The directory left where it was.
MoveToFrontSkipped(s, d, i) == s

\* Lines 229-230: add to front, then remove from the original position.
MoveToFront(s, d, i) == ListDel(ListInsert(s, 0, d), i + 1)

\* Lines 217-230.
LoadFront ==
    /\ pc = "L217"
    /\ IF ~Contains(sys_path, directory)
       THEN /\ sys_path' = ListInsert(sys_path, 0, directory)
            /\ added_to_path' = TRUE
            /\ UNCHANGED index
       ELSE LET i == ListIndex(sys_path, directory)
            IN  IF i # 0
                THEN /\ index' = Some(i)
                     /\ sys_path' = MoveToFront(sys_path, directory, i)
                     /\ UNCHANGED added_to_path
                ELSE UNCHANGED <<sys_path, index, added_to_path>>
    /\ pc' = "L232"
    /\ UNCHANGED <<envVars, options, arguments, findVars, locustfile, directory,
                   path_at_call, imported, locusts, runVars>>

\* Line 232 when executing the file succeeds: imported is bound.
LoadImport ==
    /\ pc = "L232"
    /\ ~source.raises
    /\ imported' = Some(source.vars)
    /\ pc' = "L234"
    /\ UNCHANGED <<envVars, sys_path, options, arguments, findVars, locustfile,
                   directory, added_to_path, index, path_at_call, locusts,
                   runVars>>

\* Line 232 when executing the file raises: neither load_locustfile nor main
\* has a handler, so the exception leaves main and the interpreter exits
\* with status 1.
LoadImportRaises ==
    /\ pc = "L232"
    /\ source.raises
    /\ uncaught' = Some("ImportError")
    /\ exit_code' = Some(1)
    /\ pc' = "exit"
    /\ UNCHANGED <<envVars, sys_path, options, arguments, findVars, locustfile,
                   loadVars, locusts, locust_class, events, output>>

\* Lines 234-235.
LoadUnwindAdded ==
    /\ pc = "L234"
    /\ sys_path' = IF added_to_path THEN ListDel(sys_path, 0) ELSE sys_path
    /\ pc' = "L237"
    /\ UNCHANGED <<envVars, options, arguments, findVars, locustfile, loadVars,
                   locusts, runVars>>

\* The entry reinserted at index instead of index + 1.
PutBackOffByOne(s, d, i) == ListDel(ListInsert(s, i, d), 0)

\* Lines 238-239: put back in the original index, then drop the front entry.
PutBack(s, d, i) == ListDel(ListInsert(s, i + 1, d), 0)

\* Lines 237-239.
LoadUnwindMoved ==
    /\ pc = "L237"
    /\ sys_path' = IF index # None THEN PutBack(sys_path, directory, index[1])
                   ELSE sys_path
    /\ pc' = "L241"
    /\ UNCHANGED <<envVars, options, arguments, findVars, locustfile, loadVars,
                   locusts, runVars>>

\* Lines 241-242, and the assignment of line 261 in main.
LoadReturn ==
    /\ pc = "L241"
    /\ locusts' = Some(Catalog(imported[1]))
    /\ pc' = "L263"
    /\ UNCHANGED <<envVars, sys_path, options, arguments, findVars, locustfile,
                   loadVars, runVars>>

LoadStep ==
    \/ LoadSplit
    \/ LoadFront
    \/ LoadImport
    \/ LoadImportRaises
    \/ LoadUnwindAdded
    \/ LoadUnwindMoved
    \/ LoadReturn

---------------------------------------------------------------------------
(* main, lines 244-301                                                     *)

\* What print and sys.stderr.write put out: a line of text, or the lines that
\* list the names of the catalog (lines 265-266).
Line(text) == [text |-> text]
NameLines(catalog) == [names |-> DOMAIN catalog]

\* sys.exit(status), and what was printed before it.
Exit(status, printed) ==
    /\ pc' = "exit"
    /\ exit_code' = Some(status)
    /\ output' = output \o printed

\* An exception that nothing catches: the interpreter prints the traceback and
\* exits with status 1.
Crash(exception) ==
    /\ pc' = "exit"
    /\ exit_code' = Some(1)
    /\ uncaught' = Some(exception)

\* Lines 245-246: parse_options() yields the options and the positional
\* arguments of the command line.
MainParse ==
    /\ pc = "L245"
    /\ options' = argv.opts
    /\ arguments' = argv.args
    /\ pc' = "L252"
    /\ UNCHANGED <<envVars, sys_path, findVars, locustfile, loadVars, locusts,
                   runVars>>

\* Lines 252-254.
MainVersion ==
    /\ pc = "L252"
    /\ IF options.show_version
       THEN /\ Exit(0, <<Line("Locust 0.1")>>)
       ELSE /\ pc' = "L256"
            /\ UNCHANGED <<output, exit_code>>
    /\ UNCHANGED <<envVars, sys_path, options, arguments, findVars, locustfile,
                   loadVars, locusts, locust_class, events, uncaught>>

\* Lines 257-259, then the call of line 261.
MainNotFound ==
    /\ pc = "L257"
    /\ IF locustfile = None
       THEN /\ Exit(1, <<Line("Could not find any locustfile!")>>)
       ELSE /\ pc' = "L213"
            /\ UNCHANGED <<output, exit_code>>
    /\ UNCHANGED <<envVars, sys_path, options, arguments, findVars, locustfile,
                   loadVars, locusts, locust_class, events, uncaught>>

\* Lines 263-267.
MainList ==
    /\ pc = "L263"
    /\ IF options.list_commands
       THEN /\ Exit(0, <<Line("Available Locusts:"), NameLines(locusts[1])>>)
       ELSE /\ pc' = "L270"
            /\ UNCHANGED <<output, exit_code>>
    /\ UNCHANGED <<envVars, sys_path, options, arguments, findVars, locustfile,
                   loadVars, locusts, locust_class, events, uncaught>>

\* An unknown name reported without the sys.exit(1): the launch goes on.
MainValidateNoExit ==
    /\ pc = "L270"
    /\ IF Len(arguments) = 0
       THEN /\ Crash("IndexError")
            /\ UNCHANGED <<locust_class, output>>
       ELSE IF arguments[1] \notin DOMAIN locusts[1]
       THEN /\ output' = output \o <<Line("Unknown Locust")>>
            /\ pc' = "L276"
            /\ UNCHANGED <<locust_class, exit_code, uncaught>>
       ELSE /\ locust_class' = Some(locusts[1][arguments[1]])
            /\ pc' = "L276"
            /\ UNCHANGED <<output, exit_code, uncaught>>
    /\ UNCHANGED <<envVars, sys_path, options, arguments, findVars, locustfile,
                   loadVars, locusts, events>>

\* Lines 270-274.  arguments[0] of an empty list raises IndexError, which
\* nothing catches.
MainValidate ==
    /\ pc = "L270"
    /\ IF Len(arguments) = 0
       THEN /\ Crash("IndexError")
            /\ UNCHANGED <<locust_class, output>>
       ELSE IF arguments[1] \notin DOMAIN locusts[1]
       THEN /\ Exit(1, <<Line("Unknown Locust")>>)
            /\ UNCHANGED <<locust_class, uncaught>>
       ELSE /\ locust_class' = Some(locusts[1][arguments[1]])
            /\ pc' = "L276"
            /\ UNCHANGED <<output, exit_code, uncaught>>
    /\ UNCHANGED <<envVars, sys_path, options, arguments, findVars, locustfile,
                   loadVars, locusts, events>>

\* Lines 276-278: gevent.spawn(web.start, ...)
MainWeb ==
    /\ pc = "L276"
    /\ events' = IF ~options.no_web /\ ~options.slave
                 THEN Append(events, "spawn web.start")
                 ELSE events
    /\ pc' = "L280"
    /\ UNCHANGED <<envVars, sys_path, options, arguments, findVars, locustfile,
                   loadVars, locusts, locust_class, output, exit_code, uncaught>>

\* Lines 280-281, 289-290 and 291-292: the if/elif chain that constructs the
\* runner.
MainRunner ==
    /\ pc = "L280"
    /\ IF ~options.master /\ ~options.slave
       THEN /\ events' = Append(events, "LocalLocustRunner")
            /\ pc' = "L282"
       ELSE IF options.master
       THEN /\ events' = Append(events, "MasterLocustRunner")
            /\ pc' = "L295"
       ELSE IF options.slave
       THEN /\ events' = Append(events, "SlaveLocustRunner")
            /\ pc' = "L295"
       ELSE /\ pc' = "L295"
            /\ UNCHANGED events
    /\ UNCHANGED <<envVars, sys_path, options, arguments, findVars, locustfile,
                   loadVars, locusts, locust_class, output, exit_code, uncaught>>

\* Hatching triggered when the monitor is enabled instead of disabled.
HatchWantedInverted(o) == ~o.no_web

\* Hatching triggered whatever the flags.
HatchWantedAlways(o) == TRUE

\* Line 282: if options.no_web
HatchWanted(o) == o.no_web

\* Lines 282-284: core.locust_runner.start_hatching()
MainHatch ==
    /\ pc = "L282"
    /\ events' = IF HatchWanted(options) THEN Append(events, "start_hatching")
                 ELSE events
    /\ pc' = "L286"
    /\ UNCHANGED <<envVars, sys_path, options, arguments, findVars, locustfile,
                   loadVars, locusts, locust_class, output, exit_code, uncaught>>

\* The stats task started on --print-stats alone.
StatsWantedFlagOnly(o) == o.print_stats

\* Line 286: if options.print_stats or options.no_web
StatsWanted(o) == o.print_stats \/ o.no_web

\* Lines 286-288: gevent.spawn(print_stats)
MainStats ==
    /\ pc = "L286"
    /\ events' = IF StatsWanted(options)
                 THEN Append(events, "spawn print_stats")
                 ELSE events
    /\ pc' = "L295"
    /\ UNCHANGED <<envVars, sys_path, options, arguments, findVars, locustfile,
                   loadVars, locusts, locust_class, output, exit_code, uncaught>>

\* Line 295: gevent.sleep(100000) begins; main blocks.
MainSleep ==
    /\ pc = "L295"
    /\ pc' = "sleeping"
    /\ UNCHANGED <<envVars, sys_path, options, arguments, findVars, locustfile,
                   loadVars, locusts, runVars>>

\* The interrupt caught without the farewell being printed.
MainInterruptSilent ==
    /\ pc = "sleeping"
    /\ events' = Append(events, "KeyboardInterrupt")
    /\ pc' = "L301"
    /\ UNCHANGED <<envVars, sys_path, options, arguments, findVars, locustfile,
                   loadVars, locusts, locust_class, output, exit_code, uncaught>>

\* Lines 296-299: KeyboardInterrupt raised in the sleep is caught and the
\* farewell is printed.
MainInterrupt ==
    /\ pc = "sleeping"
    /\ output' = output \o <<Line("Exiting, bye..")>>
    /\ events' = Append(events, "KeyboardInterrupt")
    /\ pc' = "L301"
    /\ UNCHANGED <<envVars, sys_path, options, arguments, findVars, locustfile,
                   loadVars, locusts, locust_class, exit_code, uncaught>>

\* Line 295: the sleep returns once its 100000 seconds have passed.
MainSleepOver ==
    /\ pc = "sleeping"
    /\ events' = Append(events, "sleep returned")
    /\ pc' = "L301"
    /\ UNCHANGED <<envVars, sys_path, options, arguments, findVars, locustfile,
                   loadVars, locusts, locust_class, output, exit_code, uncaught>>

\* Line 301.
MainExit ==
    /\ pc = "L301"
    /\ Exit(0, <<>>)
    /\ UNCHANGED <<envVars, sys_path, options, arguments, findVars, locustfile,
                   loadVars, locusts, locust_class, events, uncaught>>

MainStep ==
    \/ MainParse
    \/ MainVersion
    \/ MainNotFound
    \/ MainList
    \/ MainValidate
    \/ MainWeb
    \/ MainRunner
    \/ MainHatch
    \/ MainStats
    \/ MainSleep
    \/ MainInterrupt
    \/ MainSleepOver
    \/ MainExit

---------------------------------------------------------------------------
(* Initial states                                                          *)

\* The filesystems with the current directory at depth c: nothing is looked at
\* below the current directory, so those entries are left absent.
FileSystems(c) ==
    {f \in [Depths -> [BaseNames -> Kinds]] :
        \A d \in Depths : \A n \in BaseNames :
            /\ f[d][n] \in KindsOf(n)
            /\ d > c => f[d][n] = "absent"}

NoDecls == [n \in {} |-> "object"]

\* The locals of the three functions before they are assigned.
LocalsInit ==
    /\ names = <<>>
    /\ path = <<>>
    /\ name_i = 1
    /\ tested = {}
    /\ directory = None
    /\ added_to_path = FALSE
    /\ index = None
    /\ path_at_call = None
    /\ imported = None
    /\ locusts = None
    /\ locust_class = None
    /\ events = <<>>
    /\ output = <<>>
    /\ exit_code = None
    /\ uncaught = None

\* find_locustfile entered with any locator, from any current directory, on
\* any filesystem.
InitFind ==
    /\ cwd \in Depths
    /\ fs \in FileSystems(cwd)
    /\ \E loc \in Locators :
        /\ options = [DefaultOptions EXCEPT !.locustfile = loc]
        /\ argv = [opts |-> options, args |-> <<>>]
    /\ arguments = <<>>
    /\ source = [raises |-> FALSE, vars |-> NoDecls]
    /\ sys_path = <<SitePackages>>
    /\ pc = "L256"
    /\ locustfile = None
    /\ LocalsInit

SpecFind == InitFind /\ [][FindStep]_vars

\* The interpreter keeps executing: find_locustfile is sequential code.
FairFind == SpecFind /\ WF_vars(FindStep)

\* Every module search list of at most MaxPathLen directories.
SearchLists == UNION {[1..n -> Dirs] : n \in 0..MaxPathLen}

\* The path of a file found at depth d.
FoundAt(d) == [depth |-> d, base |-> PyName]

\* The scenario of the specification: a subclass, a private subclass and the
\* harness's own base class.
ScenarioDecls == (Foo :> "MyLocust") @@ (UBar :> "MyLocust") @@ (Base :> "Locust")

SomeSources ==
    {[raises |-> TRUE, vars |-> NoDecls],
     [raises |-> FALSE, vars |-> NoDecls],
     [raises |-> FALSE, vars |-> ScenarioDecls]}
AllSources ==
    {[raises |-> TRUE, vars |-> NoDecls]}
        \cup {[raises |-> FALSE, vars |-> d] : d \in AllDecls}

\* load_locustfile entered with the path of a file in any directory of the
\* chain: under every search list, and with every module content.
InitLoad ==
    /\ cwd = MaxDepth
    /\ \E d \in Depths :
        /\ locustfile = FoundAt(d)
        /\ fs = [e \in Depths |-> [n \in BaseNames |->
                    IF e = d /\ n = PyName THEN "file" ELSE "absent"]]
        /\ \/ /\ sys_path \in SearchLists
              /\ source \in SomeSources
           \/ /\ sys_path \in {<<SitePackages>>, <<SitePackages, ChainDir(d)>>}
              /\ source \in AllSources
    /\ options = DefaultOptions
    /\ argv = [opts |-> options, args |-> <<>>]
    /\ arguments = <<>>
    /\ pc = "L213"
    /\ LocalsInit

SpecLoad == InitLoad /\ [][LoadStep]_vars

\* The command lines of a launch: every combination of the flags, a bare or an
\* explicit locator, and no, a declared or an undeclared scenario name.
CommandLines ==
    [opts : {o \in OptionSpace :
                o.locustfile \in {DefaultLocator, [dir |-> <<".">>, base |-> PyName]}},
     args : {<<>>, <<Foo>>, <<Nope>>}]

\* A launch from the deepest directory: the scenario file is in the current
\* directory, in its parent, or nowhere.
InitMain ==
    /\ argv \in CommandLines
    /\ cwd = MaxDepth
    /\ \E found \in {{}, {MaxDepth}, {MaxDepth - 1}} :
        fs = [e \in Depths |-> [n \in BaseNames |->
                IF e \in found /\ n = PyName THEN "file" ELSE "absent"]]
    /\ source \in SomeSources
    /\ sys_path \in {<<SitePackages>>, <<SitePackages, ChainDir(MaxDepth)>>}
    /\ options = DefaultOptions
    /\ arguments = <<>>
    /\ pc = "L245"
    /\ locustfile = None
    /\ LocalsInit

Next == MainStep \/ FindStep \/ LoadStep

Spec == InitMain /\ [][Next]_vars

\* Once the sleep is over the interpreter goes on to line 301: main is
\* sequential code.  Nothing obliges an interrupt to come or the sleep to end.
FairMain == Spec /\ WF_vars(MainExit)

---------------------------------------------------------------------------
(* Properties                                                              *)

Has(seq, x) == \E i \in 1..Len(seq) : seq[i] = x

\* load_locustfile has returned to main.
Loaded == locusts # None

\* C1: after load_locustfile returns successfully, sys.path is element for
\* element what it was before the call, whether the directory was absent from
\* it or present at an index greater than 0.
C1_SearchListRestored == Loaded => sys_path = path_at_call[1]

\* C1, the case: a load has returned whose directory was the last entry of a
\* list of full length, and was moved to the front and put back.
C1_Witness ==
    /\ Loaded
    /\ index = Some(MaxPathLen - 1)
    /\ Len(sys_path) = MaxPathLen
    /\ sys_path[1] # directory

\* C2: when the import raises, sys.path is what it was before the call when
\* the error leaves load_locustfile.
C2_SearchListRestoredOnError ==
    uncaught = Some("ImportError") => sys_path = path_at_call[1]

\* C3: the catalog never contains the harness's own base class Locust, even
\* when the loaded module binds a public name to it.
C3_CatalogExcludesHarnessBase ==
    Loaded => \A n \in DOMAIN locusts[1] : locusts[1][n] # "Locust"

\* C4: a launch given both --master and --slave constructs no runner and
\* starts no task.
C4_BothTopologiesRejected ==
    (options.master /\ options.slave) => events = <<>>

\* The candidate of directory depth d and name n is acceptable: it exists and
\* either carries the .py suffix or is a directory with the package marker.
CandidateOk(d, n) ==
    /\ fs[d][n] # "absent"
    /\ n.ext = ".py" \/ fs[d][n] = "pkg"

\* The names a request stands for, bare name first.
RequestNames(n) == IF n.ext = ".py" THEN <<n>> ELSE <<n, [n EXCEPT !.ext = ".py"]>>

\* The first acceptable candidate in the order: directory d, then its parent,
\* and so on down to depth `last`; within a directory in the order of ns.
RECURSIVE FirstCandidate(_, _, _)
FirstCandidate(d, last, ns) ==
    IF d < last THEN None
    ELSE IF \E i \in 1..Len(ns) : CandidateOk(d, ns[i])
    THEN LET i == CHOOSE j \in 1..Len(ns) :
                    /\ CandidateOk(d, ns[j])
                    /\ \A k \in 1..(j - 1) : ~CandidateOk(d, ns[k])
         IN  [depth |-> d, base |-> ns[i]]
    ELSE FirstCandidate(d - 1, last, ns)

\* find_locustfile has returned from a search by bare name.
BareSearchDone == pc = "L257" /\ ~HasDirname(options.locustfile)

\* C5 as stated: the result of a bare-name search is the first acceptable
\* candidate in the order start directory, parent, grandparent and so on (up to
\* the root), bare name before suffixed name.
C5_FirstCandidateOnWholeChain ==
    BareSearchDone =>
        locustfile = FirstCandidate(cwd, 0, RequestNames(options.locustfile.base))

\* C5 as amended: the result of a bare-name search is the first acceptable
\* candidate in the order start directory, parent, grandparent and so on among
\* the directories strictly below the root, bare name before suffixed name.
C5_FirstCandidateBelowRoot ==
    BareSearchDone =>
        locustfile = FirstCandidate(cwd, 1, RequestNames(options.locustfile.base))

\* C5, the case: the candidate is absent from the start directory and found in
\* its parent, as the suffixed name.
C5_Witness ==
    /\ BareSearchDone
    /\ cwd >= 2
    /\ \A n \in BaseNames : ~CandidateOk(cwd, n)
    /\ locustfile = [depth |-> cwd - 1, base |-> PyName]
    /\ options.locustfile.base = BareName

\* No directory strictly below the root on the chain holds an acceptable
\* candidate for the request.
NothingBelowRoot ==
    \A d \in 1..cwd :
        \A i \in 1..Len(RequestNames(options.locustfile.base)) :
            ~CandidateOk(d, RequestNames(options.locustfile.base)[i])

\* C6: a bare-name search with no acceptable candidate on the chain comes to
\* an end, with the not-found result None.
C6_SearchEndsNotFound ==
    (pc = "L256" /\ ~HasDirname(options.locustfile) /\ NothingBelowRoot)
        ~> (pc = "L257" /\ locustfile = None)

\* C6, the case: a search from the deepest directory that went up to the root
\* and came back with None.
C6_Witness ==
    /\ BareSearchDone
    /\ cwd = MaxDepth
    /\ locustfile = None
    /\ Len(path) = MaxDepth + 1

\* C7: when the import is performed, the scenario file's directory is entry 0
\* of sys.path, whatever the list was before.
C7_DirectoryFirstAtImport ==
    pc = "L232" => (Len(sys_path) >= 1 /\ sys_path[1] = DirOf(locustfile))

\* C7, the case: at the import, with the directory moved to the front from a
\* later index behind another directory of the chain.
C7_Witness ==
    /\ pc = "L232"
    /\ index # None
    /\ path_at_call[1][1] # SitePackages
    /\ path_at_call[1][1] # directory

\* C8: the catalog holds exactly the declarations whose name has no leading
\* underscore and whose value is a class descending from Locust that is not in
\* the exclusion list, each with its declared value.
C8_CatalogIsPublicDescendants ==
    Loaded =>
        /\ DOMAIN locusts[1] \subseteq DOMAIN imported[1]
        /\ \A n \in DOMAIN imported[1] :
            LET v == imported[1][n]
            IN  /\ n \in DOMAIN locusts[1] <=>
                      /\ v \in {"Locust", "MyLocust"}
                      /\ v \notin Internals
                      /\ n[1] # "_"
                /\ n \in DOMAIN locusts[1] => locusts[1][n] = v

\* C8, the case: a module with a private subclass, a public subclass and a
\* public function has been loaded.
C8_Witness ==
    /\ Loaded
    /\ DOMAIN imported[1] = DeclNames
    /\ imported[1][UBar] = "MyLocust"
    /\ imported[1][Foo] = "MyLocust"
    /\ imported[1][Base] = "hatch"
    /\ DOMAIN locusts[1] = {Foo}

\* A standalone launch.
Standalone == ~options.master /\ ~options.slave

\* C9: a standalone launch with --no-web and without --print-stats has, when
\* the blocking wait is about to begin, constructed the local runner, triggered
\* hatching and started the stats task, and started no web monitor.
C9_NoWebHatchesAndPrints ==
    (pc = "L295" /\ Standalone /\ options.no_web /\ ~options.print_stats) =>
        events = <<"LocalLocustRunner", "start_hatching", "spawn print_stats">>

\* C9, the case: such a launch is about to sleep.
C9_Witness ==
    /\ pc = "L295"
    /\ Standalone
    /\ options.no_web
    /\ ~options.print_stats
    /\ locust_class = Some("MyLocust")

\* C10 as stated: with --no-web, a launch that has gone through the topology
\* bootstrap has started the stats task.
C10_NoWebStartsStats ==
    (pc = "L295" /\ options.no_web) => Has(events, "spawn print_stats")

\* C10 as amended: with --no-web, a standalone launch that has gone through
\* the topology bootstrap has started the stats task, with or without
\* --print-stats.
C10_NoWebStartsStatsStandalone ==
    (pc = "L295" /\ options.no_web /\ Standalone) =>
        Has(events, "spawn print_stats")

\* C10, the case: a standalone launch with --no-web and --print-stats is about
\* to sleep.
C10_Witness ==
    /\ pc = "L295"
    /\ options.no_web
    /\ options.print_stats
    /\ Standalone
    /\ Has(events, "spawn print_stats")

\* The topology of a launch, by the runner it has constructed.
RunnerEvents == {"LocalLocustRunner", "MasterLocustRunner", "SlaveLocustRunner"}
Runners == SelectSeq(events, LAMBDA e : e \in RunnerEvents)

\* The main greenlet was interrupted in its sleep.
Interrupted == Has(events, "KeyboardInterrupt")

\* C11: under every topology, an interrupt delivered during the blocking wait
\* has the farewell printed, and the process then exits with status 0.
C11_InterruptExitsCleanly ==
    /\ [](Interrupted =>
            /\ pc \in {"L301", "exit"}
            /\ Len(output) >= 1 /\ output[Len(output)] = Line("Exiting, bye..")
            /\ uncaught = None
            /\ pc = "exit" => exit_code = Some(0))
    /\ (Interrupted ~> (pc = "exit" /\ exit_code = Some(0)))

\* C11, the case: a worker launch was interrupted in its sleep and has exited.
C11_Witness ==
    /\ Interrupted
    /\ Runners = <<"SlaveLocustRunner">>
    /\ pc = "exit"

\* C12: once the bootstrap is over, the process leaves the blocking wait only
\* through an interrupt.
C12_WaitEndsOnlyByInterrupt ==
    (Runners # <<>> /\ pc \in {"L301", "exit"}) => Interrupted

\* The launch got as far as the validation of the scenario name (line 270).
ReachedValidation == Loaded /\ ~options.list_commands /\ pc # "L263"

\* C13: a launch with --shortlist whose scenario file was loaded prints the
\* catalog names and exits with status 0, without validating a scenario name,
\* constructing a runner or starting a task.
C13_ShortlistShortCircuits ==
    (options.shortlist /\ Loaded /\ pc # "L263") =>
        /\ pc = "exit"
        /\ exit_code = Some(0)
        /\ events = <<>>
        /\ uncaught = None
        /\ locust_class = None

\* C14: a launch that reaches the validation with no positional argument ends
\* as an unknown scenario name does: the diagnostic line and a non-zero exit,
\* no uncaught exception.
C14_MissingNameIsValidationError ==
    (ReachedValidation /\ arguments = <<>> /\ pc # "L270") =>
        /\ pc = "exit"
        /\ uncaught = None
        /\ exit_code = Some(1)
        /\ Has(output, Line("Unknown Locust"))

\* The launch is at the blocking wait: about to sleep, or asleep.
AtWait == pc \in {"L295", "sleeping"}

\* C15: a launch at the blocking wait has constructed exactly one runner: the
\* standalone runner iff neither --master nor --slave is set, the coordinator
\* runner for --master, the worker runner for --slave.
C15_OneRunnerByFlags ==
    AtWait =>
        /\ Len(Runners) = 1
        /\ Runners[1] = "LocalLocustRunner" <=> Standalone
        /\ options.master => Runners[1] = "MasterLocustRunner"
        /\ options.slave => Runners[1] = "SlaveLocustRunner"

\* C16: a launch at the blocking wait has started the web monitor iff --no-web
\* is not set and its runner is not the worker runner.
C16_WebUnlessDisabledOrWorker ==
    AtWait =>
        (Has(events, "spawn web.start") <=>
            (~options.no_web /\ ~Has(events, "SlaveLocustRunner")))

\* C17: the web monitor is spawned only after the runner was constructed.
C17_RunnerBeforeWeb ==
    \A i \in 1..Len(events) :
        events[i] = "spawn web.start" =>
            \E j \in 1..(i - 1) : events[j] \in RunnerEvents

\* C18: a runner is constructed or a task started only after the file was
\* loaded, the catalog built from it and the requested name found in the
\* catalog; a launch whose file is not found, or whose requested name is not in
\* the catalog, exits with status 1 with no runner and no task.
C18_LoadCatalogValidateThenRun ==
    /\ Loaded => (imported # None /\ locustfile # None)
    /\ locust_class # None => Loaded
    /\ events # <<>> =>
            /\ locust_class # None
            /\ Len(arguments) >= 1
            /\ arguments[1] \in DOMAIN locusts[1]
    /\ (pc = "exit" /\ ~options.show_version /\ locustfile = None) =>
            (exit_code = Some(1) /\ events = <<>> /\ imported = None)
    /\ (pc \notin {"L263", "L270"} /\ ReachedValidation /\ Len(arguments) >= 1
            /\ arguments[1] \notin DOMAIN locusts[1]) =>
            (pc = "exit" /\ exit_code = Some(1) /\ events = <<>>)

\* C18, the case: a launch that asked for a name its file does not declare has
\* exited.
C18_Witness ==
    /\ pc = "exit"
    /\ Loaded
    /\ arguments = <<Nope>>
    /\ Foo \in DOMAIN locusts[1]
    /\ Has(output, Line("Unknown Locust"))

\* C19: the bootstrap triggers hatching only in a standalone launch with the
\* web monitor disabled.
C19_HatchOnlyStandaloneNoWeb ==
    /\ Has(events, "start_hatching") =>
            /\ Standalone
            /\ options.no_web
            /\ Runners = <<"LocalLocustRunner">>
            /\ ~Has(events, "spawn web.start")
    /\ (AtWait /\ Standalone /\ options.no_web) => Has(events, "start_hatching")

\* C19, the case: a coordinator launch with --no-web is at the wait and has
\* not triggered hatching.
C19_Witness ==
    /\ AtWait
    /\ options.master
    /\ ~options.slave
    /\ options.no_web
    /\ Runners = <<"MasterLocustRunner">>
    /\ ~Has(events, "start_hatching")

\* C20: a bare-name search tests exactly the start directory and its ancestors
\* strictly below the root, down to the directory of the result: never the
\* root, so a candidate in the root alone gives None, and a search started in
\* the root tests nothing.
C20_RootNeverTested ==
    /\ 0 \notin tested
    /\ BareSearchDone =>
            /\ tested = IF locustfile = None THEN 1..cwd
                        ELSE locustfile.depth..cwd
            /\ NothingBelowRoot => locustfile = None
            /\ cwd = 0 => tested = {}

\* C20, the case: a search from the deepest directory, with the only
\* candidate in the root, has returned None.
C20_Witness ==
    /\ BareSearchDone
    /\ cwd = MaxDepth
    /\ CandidateOk(0, PyName)
    /\ locustfile = None
    /\ tested = 1..MaxDepth

====
